---- MODULE Spec2Model ----
(***************************************************************************)
(* Model of the YouTube summarizer backend (src/app.py): the validators,   *)
(* the memoized transcript retriever, the per-route rate limit and the     *)
(* four generation handlers.                                               *)
(*                                                                         *)
(* Strings whose characters matter (video ids, languages, transcript       *)
(* texts) are sequences of code points.  Message texts are sequences of    *)
(* string pieces: <<>> is the empty string, \o is concatenation, so that   *)
(* Python's truthiness of a message is Len(m) > 0.                         *)
(***************************************************************************)
EXTENDS Integers, Sequences, FiniteSets, TLC

VARIABLES
    cache,  \* the lru_cache of get_transcript: entries, least recently used first
    hits,   \* the limiter's storage: requests counted per client and route in the open window
    last,   \* the last request handled: what it was, what it called, what it answered
    arg,    \* the argument handed to a validator
    ret,    \* what the validator returned (or raised) for arg
    used,   \* history: the keys get_transcript was called with, least recently used first
    flight, \* the requests being handled: per thread, where its handler stands
    produced \* history: the (key, result) pairs the body of get_transcript returned

vars == <<cache, hits, last, arg, ret, used, flight, produced>>

----------------------------------------------------------------------------
(* JSON values a request body can carry for a key *)

JAbsent == [t |-> "absent", s |-> <<>>, n |-> 0]
JNull == [t |-> "null", s |-> <<>>, n |-> 0]
JStr(s) == [t |-> "str", s |-> s, n |-> 0]
JNum(n) == [t |-> "num", s |-> <<>>, n |-> n]

\* Python truthiness of a value read from the body (None, "" and 0 are falsy)
Truthy(v) ==
    CASE v.t = "str" -> Len(v.s) > 0
      [] v.t = "num" -> v.n # 0
      [] OTHER -> FALSE

\* what a function call yields: a value, or an exception that propagates
Returned(v) == [exc |-> "", val |-> v]
Raised(e) == [exc |-> e, val |-> FALSE]

----------------------------------------------------------------------------
(* Configuration, src/app.py:52-54 *)

MAX_CHARS == 12000
YOUTUBE_ID_LEN == 11
LangFr == <<102, 114>>
LangEn == <<101, 110>>
SUPPORTED_LANGUAGES == {LangFr, LangEn}

\* the character class [a-zA-Z0-9_-] of YOUTUBE_ID_REGEX
IdChar(c) ==
    \/ c \in 97..122
    \/ c \in 65..90
    \/ c \in 48..57
    \/ c = 95
    \/ c = 45

\* re.match(r'^[a-zA-Z0-9_-]{11}$', s): eleven class characters from the start,
\* then `$`, which Python matches at the end of the string and also just before
\* a newline that ends the string.
ReMatchId(s) ==
    /\ Len(s) >= YOUTUBE_ID_LEN
    /\ \A i \in 1..YOUTUBE_ID_LEN : IdChar(s[i])
    /\ \/ Len(s) = YOUTUBE_ID_LEN
       \/ Len(s) = YOUTUBE_ID_LEN + 1 /\ s[YOUTUBE_ID_LEN + 1] = 10

\* validate_video_id: re.match raises TypeError for an argument that is no string
validate_video_id(video_id) ==
    IF video_id.t # "str"
    THEN Raised("TypeError")
    ELSE Returned(ReMatchId(video_id.s))

\* str.lower on the Latin-1 range
LowerChar(c) ==
    IF c \in 65..90 \/ (c \in 192..222 /\ c # 215) THEN c + 32 ELSE c

Lower(s) == [i \in 1..Len(s) |-> LowerChar(s[i])]

\* validate_language: lang.lower() raises AttributeError when lang is no string
validate_language(lang) ==
    IF lang.t # "str"
    THEN Raised("AttributeError")
    ELSE LET l == Lower(lang.s)
         IN  Returned(IF l \in SUPPORTED_LANGUAGES THEN l ELSE LangFr)

----------------------------------------------------------------------------
(* The validators applied to arguments built one character at a time *)

MaxArgLen == 12
MaxOddChars == 2

\* the character most of an argument is made of
FillChars == {97}
\* the other characters: - 0 Z _ newline ! { and the letters of fr, en, de
OddChars == {45, 48, 90, 95, 10, 33, 123, 102, 114, 101, 110, 70, 82, 69, 78, 100}

OddCount(s) == Cardinality({i \in 1..Len(s) : s[i] \notin FillChars})

NoRet == [fn |-> "none", exc |-> "", val |-> FALSE]

InitValidators ==
    /\ cache = <<>>
    /\ hits = <<>>
    /\ last = <<>>
    /\ arg \in {JStr(<<>>), JNull, JNum(5)}
    /\ ret = NoRet
    /\ used = <<>>
    /\ flight = <<>>
    /\ produced = {}

\* the caller writes one more character of the argument
AppendChar ==
    /\ arg.t = "str"
    /\ Len(arg.s) < MaxArgLen
    /\ \E c \in OddChars \cup FillChars :
          /\ c \notin FillChars => OddCount(arg.s) < MaxOddChars
          /\ arg' = JStr(Append(arg.s, c))
    /\ ret' = NoRet
    /\ UNCHANGED <<cache, hits, last, used, flight, produced>>

CallValidateVideoId ==
    /\ ret' = [fn |-> "validate_video_id"] @@ validate_video_id(arg)
    /\ UNCHANGED <<cache, hits, last, arg, used, flight, produced>>

CallValidateLanguage ==
    /\ ret' = [fn |-> "validate_language"] @@ validate_language(arg)
    /\ UNCHANGED <<cache, hits, last, arg, used, flight, produced>>

NextValidators ==
    \/ AppendChar
    \/ CallValidateVideoId
    \/ CallValidateLanguage

SpecValidators == InitValidators /\ [][NextValidators]_vars

----------------------------------------------------------------------------
(* The transcript provider and the model, as the handlers see them *)

\* a transcript: timed segments in order of start (times in tenths of a second)
SegsA == << [text |-> <<72, 105>>, start |-> 0, duration |-> 25],
            [text |-> <<33>>, start |-> 25, duration |-> 20] >>
SegsB == << [text |-> <<79, 107>>, start |-> 0, duration |-> 30] >>

\* what one call of YouTubeTranscriptApi.get_transcript does
Found(segs) == [kind |-> "found", segs |-> segs, msg |-> <<>>]
NoTranscriptFound == [kind |-> "NoTranscriptFound", segs |-> <<>>, msg |-> <<>>]
TranscriptsDisabled == [kind |-> "TranscriptsDisabled", segs |-> <<>>, msg |-> <<>>]
\* any other exception e, with str(e) = msg
OtherError(msg) == [kind |-> "Exception", segs |-> <<>>, msg |-> msg]

\* what client.chat.completions.create does
Completion(content) == [kind |-> "completion", content |-> content, msg |-> <<>>]
ModelError(msg) == [kind |-> "Exception", content |-> "", msg |-> msg]
NoModelCall == [kind |-> "none", content |-> "", msg |-> <<>>]

\* a language as it is printed inside a message
LangText(l) ==
    CASE l = LangFr -> "fr"
      [] l = LangEn -> "en"
      [] OTHER -> "?"

----------------------------------------------------------------------------
(* get_transcript, src/app.py:68-101 *)

\* the (transcript, error message, HTTP code) tuple get_transcript returns
Result(segs, message, status) ==
    [none |-> FALSE, segs |-> segs, message |-> message, status |-> status]
NoneResult(message, status) ==
    [none |-> TRUE, segs |-> <<>>, message |-> message, status |-> status]

MsgDisabled == <<"Transcription desactivee pour cette video">>
MsgNotFound(target_lang) ==
    <<"Aucun sous-titre disponible dans les langues specifiees (", LangText(target_lang), ")">>

\* mutant: a transcript found at the second attempt is not used
SecondAttemptNoFallback(target_lang, o2) ==
    CASE o2.kind = "TranscriptsDisabled" -> NoneResult(MsgDisabled, 403)
      [] o2.kind = "Exception" -> NoneResult(o2.msg, 500)
      [] OTHER -> NoneResult(MsgNotFound(target_lang), 404)

\* mutant: the generic except clause comes before the one for disabled transcripts
SecondAttemptDisabledAsError(target_lang, o2) ==
    CASE o2.kind = "found" -> Result(o2.segs, <<>>, 200)
      [] o2.kind = "NoTranscriptFound" -> NoneResult(MsgNotFound(target_lang), 404)
      [] OTHER -> NoneResult(<<"TranscriptsDisabled">>, 500)

\* the inner try, lines 84-95: the attempt in target_lang
SecondAttempt(target_lang, o2) ==
    CASE o2.kind = "found" -> Result(o2.segs, <<>>, 200)
      [] o2.kind = "NoTranscriptFound" -> NoneResult(MsgNotFound(target_lang), 404)
      [] o2.kind = "TranscriptsDisabled" -> NoneResult(MsgDisabled, 403)
      [] OTHER -> NoneResult(o2.msg, 500)

\* the body of get_transcript: o1 is what the provider does at the English
\* attempt, o2 what it does at the target_lang attempt, if that one is made.
\* attempts lists the provider calls made, in order.
GetTranscriptBody(video_id, target_lang, o1, o2) ==
    LET first == [lang |-> LangEn, out |-> o1]
        second == [lang |-> target_lang, out |-> o2]
    IN  CASE o1.kind = "found" ->
               [result |-> Result(o1.segs, <<>>, 200), attempts |-> <<first>>]
          [] o1.kind = "NoTranscriptFound" ->
               [result |-> SecondAttempt(target_lang, o2), attempts |-> <<first, second>>]
          [] o1.kind = "TranscriptsDisabled" ->
               [result |-> NoneResult(MsgDisabled, 403), attempts |-> <<first>>]
          [] OTHER ->
               [result |-> NoneResult(o1.msg, 500), attempts |-> <<first>>]

\* @lru_cache(maxsize=100)
maxsize == 100

\* mutant: the lookup never finds the key
CacheIndexMiss(c, key) == 0

\* the position of key in the cache, 0 when it is not there
CacheIndex(c, key) ==
    IF \E i \in 1..Len(c) : c[i].key = key
    THEN CHOOSE i \in 1..Len(c) : c[i].key = key
    ELSE 0

\* a hit that leaves the entry where it was inserted
CacheTouchStay(c, i) == c

\* a hit makes the entry the most recently used one
CacheTouch(c, i) ==
    [j \in 1..Len(c) |-> IF j < i THEN c[j] ELSE IF j < Len(c) THEN c[j + 1] ELSE c[i]]

\* a store that does not look for the key again
CacheStoreNoRecheck(c, cap, key, val) ==
    LET e == [key |-> key, val |-> val]
    IN  IF cap = 0 THEN c
        ELSE IF Len(c) >= cap THEN Append(Tail(c), e)
        ELSE Append(c, e)

\* a miss stores the new entry as the most recently used one; a full cache
\* drops its least recently used entry for it.  A key that was stored while
\* the body ran is left as it is.
CacheStore(c, cap, key, val) ==
    LET e == [key |-> key, val |-> val]
    IN  IF cap = 0 THEN c
        ELSE IF \E i \in 1..Len(c) : c[i].key = key THEN c
        ELSE IF Len(c) >= cap THEN Append(Tail(c), e)
        ELSE Append(c, e)

\* get_transcript as the handlers call it, through lru_cache with capacity cap:
\* whatever the body returned is stored under (video_id, target_lang)
get_transcript(c, cap, video_id, target_lang, o1, o2) ==
    LET key == <<video_id, target_lang>>
        i == CacheIndex(c, key)
    IN  IF i > 0
        THEN [cache |-> CacheTouch(c, i), result |-> c[i].val,
              attempts |-> <<>>, hit |-> TRUE]
        ELSE LET b == GetTranscriptBody(video_id, target_lang, o1, o2)
             IN  [cache |-> CacheStore(c, cap, key, b.result), result |-> b.result,
                  attempts |-> b.attempts, hit |-> FALSE]

\* truncate_text, src/app.py:103-107
TruncationMarker ==
    <<10, 10, 91, 84, 114, 111, 110, 113, 117, 233, 32, 224, 32, 99, 97, 117, 115,
      101, 32, 100, 101, 32, 108, 97, 32, 116, 97, 105, 108, 108, 101, 32, 109, 97,
      120, 105, 109, 97, 108, 101, 93>>

\* mutant: a text of exactly max_chars characters is cut too
truncate_textAtLimit(text, max_chars) ==
    IF Len(text) >= max_chars
    THEN SubSeq(text, 1, max_chars) \o TruncationMarker
    ELSE text

truncate_text(text, max_chars) ==
    IF Len(text) > max_chars
    THEN SubSeq(text, 1, max_chars) \o TruncationMarker
    ELSE text

\* " ".join([entry["text"] for entry in transcript_list])
RECURSIVE JoinTexts(_)
JoinTexts(segs) ==
    IF Len(segs) = 0 THEN <<>>
    ELSE IF Len(segs) = 1 THEN segs[1].text
    ELSE segs[1].text \o <<32>> \o JoinTexts(Tail(segs))

----------------------------------------------------------------------------
(* truncate_text applied to texts around the limit, with the default max_chars *)

\* how far from 0 and from MAX_CHARS the lengths of the texts go
MaxNear == 3

\* a text just short of the limit
NearLimitText == [i \in 1..(MAX_CHARS - MaxNear) |-> 97]

InitTruncate ==
    /\ cache = <<>>
    /\ hits = <<>>
    /\ last = <<>>
    /\ arg \in {JStr(<<>>), JStr(NearLimitText)}
    /\ ret = NoRet
    /\ used = <<>>
    /\ flight = <<>>
    /\ produced = {}

\* the text grows by one character, plain or odd
AppendTextChar ==
    /\ \/ Len(arg.s) < MaxNear
       \/ Len(arg.s) >= MAX_CHARS - MaxNear /\ Len(arg.s) < MAX_CHARS + MaxNear
    /\ \E c \in {97, 10, 233} :
          /\ c # 97 => OddCount(arg.s) < MaxOddChars
          /\ arg' = JStr(Append(arg.s, c))
    /\ ret' = NoRet
    /\ UNCHANGED <<cache, hits, last, used, flight, produced>>

CallTruncateText ==
    /\ ret' = [fn |-> "truncate_text"] @@ Returned(truncate_text(arg.s, MAX_CHARS))
    /\ UNCHANGED <<cache, hits, last, arg, used, flight, produced>>

NextTruncate ==
    \/ AppendTextChar
    \/ CallTruncateText

SpecTruncate == InitTruncate /\ [][NextTruncate]_vars

----------------------------------------------------------------------------
(* The four generation routes, src/app.py:128-407 *)

Endpoints == {"summarize", "timestamped-summary", "enhanced-transcript", "top-comments"}

\* request.get_json(): no JSON (None), an object, or a non-empty array
NoBody == [kind |-> "none", videoId |-> JAbsent, targetLang |-> JAbsent]
Body(video_id, target_lang) ==
    [kind |-> "dict", videoId |-> video_id, targetLang |-> target_lang]
ArrayBody == [kind |-> "list", videoId |-> JAbsent, targetLang |-> JAbsent]

\* `not data`: None and {} are falsy
Falsy(data) ==
    \/ data.kind = "none"
    \/ data.kind = "dict" /\ data.videoId.t = "absent" /\ data.targetLang.t = "absent"

\* data.get(key) and data.get(key, default)
DictGet(v) == IF v.t = "absent" THEN JNull ELSE v
DictGetDefault(v, default) == IF v.t = "absent" THEN default ELSE v

\* create_error_response, src/app.py:109-116
NoPayload == [route |-> "none"]
create_error_response(message, status_code) ==
    [status |-> status_code,
     error |-> [present |-> TRUE, message |-> message, status |-> status_code],
     payload |-> NoPayload]

\* jsonify(payload), status 200
Ok200(payload) ==
    [status |-> 200,
     error |-> [present |-> FALSE, message |-> <<>>, status |-> 0],
     payload |-> payload]

MsgBodyRequired == <<"Corps de requete JSON requis">>
MsgIdRequired == <<"videoId est requis">>
MsgBadId == <<"Format d'ID video YouTube invalide">>
MsgTooMany == <<"Trop de requetes. Veuillez reessayer plus tard.">>
MsgProcessing == <<"Erreur lors du traitement: ">>

\* str(e) of the exceptions Python itself raises in a handler
ExcText(e) ==
    CASE e = "TypeError" -> <<"expected string or bytes-like object">>
      [] e = "AttributeError" -> <<"object has no attribute">>
      [] e = "NoneIteration" -> <<"'NoneType' object is not iterable">>
      [] OTHER -> <<e>>

\* the except clause that closes every handler
Caught(text) == create_error_response(MsgProcessing \o text, 500)

\* the body each route returns on success
Payload(route, content, video_id, target_lang, transcript_list, transcript_text) ==
    CASE route = "summarize" ->
           [route |-> route, summary |-> content,
            metadata |-> [videoId |-> video_id, language |-> target_lang,
                          charCount |-> Len(transcript_text)]]
      [] route = "timestamped-summary" ->
           [route |-> route, analysis |-> content,
            timestamps |-> [i \in 1..Len(transcript_list) |->
                              [time |-> transcript_list[i].start,
                               text |-> transcript_list[i].text,
                               duration |-> transcript_list[i].duration]],
            metadata |-> [videoId |-> video_id, language |-> target_lang,
                          momentsCount |-> Len(transcript_list)]]
      [] route = "enhanced-transcript" ->
           [route |-> route, result |-> content,
            metadata |-> [videoId |-> video_id, language |-> target_lang,
                          originalLength |-> Len(transcript_text)]]
      [] OTHER ->
           [route |-> route, result |-> content,
            metadata |-> [videoId |-> video_id, language |-> target_lang,
                          generatedAt |-> "now"]]

\* a handler that answered before get_transcript
Early(c, resp) ==
    [cache |-> c, resp |-> resp, fetched |-> FALSE, key |-> <<>>, hit |-> FALSE,
     result |-> NoneResult(<<>>, 0), attempts |-> <<>>, model |-> NoModelCall,
     modelCalls |-> 0]

\* mutant: a failed call of the model is made once more before giving up
AfterTranscriptRetry(route, video_id, target_lang, g, m) ==
    LET done(resp, model, n) ==
            [cache |-> g.cache, resp |-> resp, fetched |-> TRUE,
             key |-> <<video_id, target_lang>>, hit |-> g.hit, result |-> g.result,
             attempts |-> g.attempts, model |-> model, modelCalls |-> n]
        text == truncate_text(JoinTexts(g.result.segs), MAX_CHARS)
    IN  IF Len(g.result.message) > 0
        THEN done(create_error_response(g.result.message, g.result.status), NoModelCall, 0)
        ELSE IF g.result.none
        THEN done(Caught(ExcText("NoneIteration")), NoModelCall, 0)
        ELSE IF m.kind = "Exception"
        THEN done(Caught(m.msg), m, 2)
        ELSE done(Ok200(Payload(route, m.content, video_id, target_lang,
                                g.result.segs, text)), m, 1)

\* the rest of a handler once get_transcript has returned g: the error test,
\* the prompt text, the single call of the model (which does m), the answer
AfterTranscript(route, video_id, target_lang, g, m) ==
    LET done(resp, model, n) ==
            [cache |-> g.cache, resp |-> resp, fetched |-> TRUE,
             key |-> <<video_id, target_lang>>, hit |-> g.hit, result |-> g.result,
             attempts |-> g.attempts, model |-> model, modelCalls |-> n]
        text == truncate_text(JoinTexts(g.result.segs), MAX_CHARS)
    IN  IF Len(g.result.message) > 0
        THEN done(create_error_response(g.result.message, g.result.status), NoModelCall, 0)
        ELSE IF g.result.none
        THEN done(Caught(ExcText("NoneIteration")), NoModelCall, 0)
        ELSE IF m.kind = "Exception"
        THEN done(Caught(m.msg), m, 1)
        ELSE done(Ok200(Payload(route, m.content, video_id, target_lang,
                                g.result.segs, text)), m, 1)

\* the head of a handler, lines 132-144 of summarize: the body, the video id
\* and the language, each checked in turn.  early is TRUE when the handler
\* returns here, with resp.
Validated(data) ==
    LET early(resp) == [early |-> TRUE, resp |-> resp, video_id |-> <<>>,
                        target_lang |-> <<>>]
        video_id == DictGet(data.videoId)
        valid == validate_video_id(video_id)
        lang == validate_language(DictGetDefault(data.targetLang, JStr(LangFr)))
    IN  IF Falsy(data) THEN early(create_error_response(MsgBodyRequired, 400))
        ELSE IF data.kind = "list" THEN early(Caught(ExcText("AttributeError")))
        ELSE IF ~Truthy(video_id) THEN early(create_error_response(MsgIdRequired, 400))
        ELSE IF valid.exc # "" THEN early(Caught(ExcText(valid.exc)))
        ELSE IF ~valid.val THEN early(create_error_response(MsgBadId, 400))
        ELSE IF lang.exc # "" THEN early(Caught(ExcText(lang.exc)))
        ELSE [early |-> FALSE, resp |-> Ok200(NoPayload), video_id |-> video_id.s,
              target_lang |-> lang.val]

\* one handler, from request.get_json() to its return.  The four routes are
\* the same code up to the prompt and the success body.
Handler(route, c, cap, data, o1, o2, m) ==
    LET v == Validated(data)
    IN  IF v.early THEN Early(c, v.resp)
        ELSE AfterTranscript(route, v.video_id, v.target_lang,
                             get_transcript(c, cap, v.video_id, v.target_lang, o1, o2), m)

\* @limiter.limit("5 per minute"): the requests one client may make to one
\* route in one window
RouteLimit == 5

\* ratelimit_handler, src/app.py:118-124
ratelimit_handler == create_error_response(MsgTooMany, 429)

\* mutant: the limit is tested one request late
OverLimitLate(count) == count > RouteLimit + 1

\* the limiter counts the request, then lets it through if the count is within
\* the limit
OverLimit(count) == count > RouteLimit

NoRequest ==
    [route |-> "none", data |-> NoBody, hitsBefore |-> 0, limited |-> FALSE,
     fetched |-> FALSE, key |-> <<>>, hit |-> FALSE, result |-> NoneResult(<<>>, 0),
     attempts |-> <<>>, model |-> NoModelCall, modelCalls |-> 0,
     resp |-> Ok200(NoPayload)]

\* the requests counted in the open windows, over all clients and routes
RECURSIVE SumOver(_, _)
SumOver(f, S) ==
    IF S = {} THEN 0
    ELSE LET x == CHOOSE y \in S : TRUE
         IN  f[x] + SumOver(f, S \ {x})

TotalHits(D) ==
    SumOver([cl \in D.clients |-> SumOver(hits[cl], Endpoints)], D.clients)

\* what the provider can do during one request: one behaviour for the English
\* attempt and, when that one finds no transcript, one for the second attempt
ProviderRuns(outcomes) ==
    {<<o1, o2>> \in outcomes \X outcomes :
        o1 # NoTranscriptFound => o2 = NoTranscriptFound}

\* the runs a handler can make of one request, over what the provider and the
\* model can do meanwhile (nothing is chosen for a provider that is not called)
HandlerRuns(D, route, data) ==
    LET v == Validated(data)
        called == ~v.early /\ CacheIndex(cache, <<v.video_id, v.target_lang>>) = 0
        runs == IF called THEN D.runs ELSE {<<NoTranscriptFound, NoTranscriptFound>>}
    IN  {Handler(route, cache, D.maxsize, data, p[1], p[2], m) :
            p \in runs, m \in D.models}

\* key becomes the most recently used one
MarkUsed(u, key) == SelectSeq(u, LAMBDA k : k # key) \o <<key>>

\* one request of client cl to route, with body data: the limiter counts it and
\* answers it itself when it is over the limit; otherwise the handler runs
Request(D, route, cl, data) ==
    LET count == hits[cl][route] + 1
    IN  /\ hits' = [hits EXCEPT ![cl][route] = count]
        /\ IF OverLimit(count)
           THEN /\ cache' = cache
                /\ used' = used
                /\ last' = [NoRequest EXCEPT !.route = route, !.data = data,
                              !.hitsBefore = hits[cl][route], !.limited = TRUE,
                              !.resp = ratelimit_handler]
           ELSE \E h \in HandlerRuns(D, route, data) :
                /\ cache' = h.cache
                /\ used' = IF h.fetched THEN MarkUsed(used, h.key) ELSE used
                /\ last' = [route |-> route, data |-> data,
                            hitsBefore |-> hits[cl][route], limited |-> FALSE,
                            fetched |-> h.fetched, key |-> h.key, hit |-> h.hit,
                            result |-> h.result, attempts |-> h.attempts,
                            model |-> h.model, modelCalls |-> h.modelCalls,
                            resp |-> h.resp]
        /\ UNCHANGED <<arg, ret, flight, produced>>

\* the clients make requests while fewer than D.maxhits are counted
Load(D) == TotalHits(D) < D.maxhits

summarize(D) ==
    /\ Load(D)
    /\ \E cl \in D.clients, data \in D.bodies : Request(D, "summarize", cl, data)

get_timestamped_summary(D) ==
    /\ Load(D)
    /\ \E cl \in D.clients, data \in D.bodies : Request(D, "timestamped-summary", cl, data)

get_enhanced_transcript(D) ==
    /\ Load(D)
    /\ \E cl \in D.clients, data \in D.bodies : Request(D, "enhanced-transcript", cl, data)

analyze_comments(D) ==
    /\ Load(D)
    /\ \E cl \in D.clients, data \in D.bodies : Request(D, "top-comments", cl, data)

\* the window of one client on one route ends: its count starts again
WindowExpires(D) ==
    \E cl \in D.clients, route \in Endpoints :
        /\ hits[cl][route] > 0
        /\ hits' = [hits EXCEPT ![cl][route] = 0]
        /\ UNCHANGED <<cache, last, arg, ret, used, flight, produced>>

InitServer(D) ==
    /\ cache = <<>>
    /\ hits = [cl \in D.clients |-> [route \in Endpoints |-> 0]]
    /\ last = NoRequest
    /\ arg = JNull
    /\ ret = NoRet
    /\ used = <<>>
    /\ flight = <<>>
    /\ produced = {}

NextServer(D) ==
    \/ summarize(D)
    \/ get_timestamped_summary(D)
    \/ get_enhanced_transcript(D)
    \/ analyze_comments(D)
    \/ WindowExpires(D)

\* the video id of the tests, dQw4w9WgXcQ
GoodId == <<100, 81, 119, 52, 119, 57, 87, 103, 88, 99, 81>>
\* "invalid"
ShortId == <<105, 110, 118, 97, 108, 105, 100>>

\* the requests counted at once under light load
MaxHitsLight == 3

\* requests with a well-formed body, against every behaviour of the provider
\* and of the model
DFetch ==
    [clients |-> {"c1"},
     bodies |-> {Body(JStr(GoodId), JStr(LangFr)), Body(JStr(GoodId), JStr(LangEn))},
     runs |-> ProviderRuns({Found(SegsA), Found(SegsB), NoTranscriptFound,
                            TranscriptsDisabled, OtherError(<<"boom">>),
                            OtherError(<<>>)}),
     models |-> {Completion("{}"), ModelError(<<"API Error">>)},
     maxsize |-> maxsize,
     maxhits |-> MaxHitsLight]

Spec == InitServer(DFetch) /\ [][NextServer(DFetch)]_vars

\* dQw4w9WgXcQ followed by a newline
NewlineId == Append(GoodId, 10)

\* every shape of body, against a provider that has the transcript or has none
DBodies ==
    [clients |-> {"c1"},
     bodies |-> {NoBody, ArrayBody, Body(JAbsent, JAbsent), Body(JAbsent, JStr(LangFr)),
                 Body(JNull, JAbsent), Body(JStr(<<>>), JStr(LangFr)),
                 Body(JStr(ShortId), JAbsent), Body(JNum(12345), JAbsent),
                 Body(JStr(NewlineId), JAbsent), Body(JStr(GoodId), JAbsent),
                 Body(JStr(GoodId), JStr(<<70, 82>>)), Body(JStr(GoodId), JStr(<<100, 101>>)),
                 Body(JStr(GoodId), JNull)},
     runs |-> ProviderRuns({Found(SegsA), NoTranscriptFound}),
     models |-> {Completion("{}"), ModelError(<<"API Error">>)},
     maxsize |-> maxsize,
     maxhits |-> MaxHitsLight]

SpecBodies == InitServer(DBodies) /\ [][NextServer(DBodies)]_vars

\* the requests counted at once when a client runs into the limit
MaxHitsHeavy == 6

\* two clients, up to the limit and beyond
DRate ==
    [clients |-> {"c1", "c2"},
     bodies |-> {Body(JStr(GoodId), JStr(LangFr)), Body(JAbsent, JAbsent)},
     runs |-> ProviderRuns({Found(SegsA), TranscriptsDisabled}),
     models |-> {Completion("{}")},
     maxsize |-> maxsize,
     maxhits |-> MaxHitsHeavy]

SpecRate == InitServer(DRate) /\ [][NextServer(DRate)]_vars

\* the entries the cache holds when the requests below begin
Prefilled == 99

\* the ids of the videos asked for before (dQw4w9Wg001, dQw4w9Wg002, ...) and
\* of the videos not asked for yet (dQw4w9WgXN1, ...)
FillId(k) ==
    SubSeq(GoodId, 1, 8) \o <<48 + (k \div 100), 48 + ((k \div 10) % 10), 48 + (k % 10)>>
NewId(n) == SubSeq(GoodId, 1, 9) \o <<78, 48 + n>>
FillKey(k) == <<FillId(k), LangFr>>

\* a server that has answered Prefilled requests, one for each of Prefilled
\* videos in turn, each of which had a transcript
InitFilled(D) ==
    /\ cache = [k \in 1..Prefilled |->
                  [key |-> FillKey(k), val |-> Result(SegsA, <<>>, 200)]]
    /\ hits = [cl \in D.clients |-> [route \in Endpoints |-> 0]]
    /\ last = NoRequest
    /\ arg = JNull
    /\ ret = NoRet
    /\ used = [k \in 1..Prefilled |-> FillKey(k)]
    /\ flight = <<>>
    /\ produced = {}

\* requests for a video that is in the cache and for two that are not, each
\* of which has an English transcript
DLru ==
    [clients |-> {"c1"},
     bodies |-> {Body(JStr(FillId(1)), JStr(LangFr)), Body(JStr(NewId(1)), JStr(LangFr)),
                 Body(JStr(NewId(2)), JStr(LangFr))},
     runs |-> {<<Found(SegsA), NoTranscriptFound>>},
     models |-> {Completion("{}")},
     maxsize |-> maxsize,
     maxhits |-> MaxHitsLight]

SpecLru == InitFilled(DLru) /\ [][NextServer(DLru)]_vars

(***************************************************************************)
(* Requests handled at once.  app.run serves each request on a thread of   *)
(* its own.  A handler touches the cache twice: get_transcript looks its   *)
(* key up (a hit returns the stored value and makes the entry the most     *)
(* recently used, in one step), and after a miss, once the body has        *)
(* returned, it stores the result.  Between the two the body talks to the  *)
(* provider and other handlers run.  The rest of a handler works on its    *)
(* own values.                                                             *)
(***************************************************************************)

\* a thread that handles no request
Idle ==
    [pc |-> "idle", route |-> "none", data |-> NoBody, hitsBefore |-> 0,
     video_id |-> <<>>, target_lang |-> <<>>]

\* a thread takes a request: the limiter counts it, the handler reads and
\* checks the body and get_transcript looks the key up.  On a miss the thread
\* goes on to the body of get_transcript; otherwise the request is answered
\* as it is when handled alone.
HandlerEnters(D) ==
    /\ Load(D)
    /\ \E t \in D.threads, cl \in D.clients, route \in D.routes, data \in D.bodies :
        /\ flight[t].pc = "idle"
        /\ LET v == Validated(data)
           IN  IF /\ ~OverLimit(hits[cl][route] + 1)
                  /\ ~v.early
                  /\ CacheIndex(cache, <<v.video_id, v.target_lang>>) = 0
               THEN /\ hits' = [hits EXCEPT ![cl][route] = hits[cl][route] + 1]
                    /\ flight' = [flight EXCEPT ![t] =
                                     [pc |-> "fetching", route |-> route, data |-> data,
                                      hitsBefore |-> hits[cl][route],
                                      video_id |-> v.video_id,
                                      target_lang |-> v.target_lang]]
                    /\ UNCHANGED <<cache, last, arg, ret, used, produced>>
               ELSE Request(D, route, cl, data)

\* the body of get_transcript returns in a thread: the result is stored, and
\* the handler goes on to its answer
GetTranscriptReturns(D) ==
    \E t \in D.threads, p \in D.runs, m \in D.models :
        /\ flight[t].pc = "fetching"
        /\ LET f == flight[t]
               key == <<f.video_id, f.target_lang>>
               b == GetTranscriptBody(f.video_id, f.target_lang, p[1], p[2])
               g == [cache |-> CacheStore(cache, D.maxsize, key, b.result),
                     result |-> b.result, attempts |-> b.attempts, hit |-> FALSE]
               h == AfterTranscript(f.route, f.video_id, f.target_lang, g, m)
           IN  /\ cache' = h.cache
               /\ used' = IF CacheIndex(cache, key) > 0 THEN used ELSE MarkUsed(used, key)
               /\ produced' = produced \cup {<<key, b.result>>}
               /\ last' = [route |-> f.route, data |-> f.data,
                           hitsBefore |-> f.hitsBefore, limited |-> FALSE,
                           fetched |-> h.fetched, key |-> h.key, hit |-> h.hit,
                           result |-> h.result, attempts |-> h.attempts,
                           model |-> h.model, modelCalls |-> h.modelCalls,
                           resp |-> h.resp]
               /\ flight' = [flight EXCEPT ![t] = Idle]
        /\ UNCHANGED <<hits, arg, ret>>

\* two threads, a cache one entry short of full, a provider whose transcript
\* of a video changes between two fetches
DThreads ==
    [threads |-> {"t1", "t2"},
     clients |-> {"c1"},
     routes |-> {"summarize"},
     bodies |-> {Body(JStr(FillId(1)), JStr(LangFr)), Body(JStr(NewId(1)), JStr(LangFr)),
                 Body(JStr(NewId(2)), JStr(LangFr))},
     runs |-> {<<Found(SegsA), NoTranscriptFound>>, <<Found(SegsB), NoTranscriptFound>>},
     models |-> {Completion("{}")},
     maxsize |-> maxsize,
     maxhits |-> MaxHitsLight]

InitThreads(D) ==
    /\ cache = [k \in 1..Prefilled |->
                  [key |-> FillKey(k), val |-> Result(SegsA, <<>>, 200)]]
    /\ hits = [cl \in D.clients |-> [route \in Endpoints |-> 0]]
    /\ last = NoRequest
    /\ arg = JNull
    /\ ret = NoRet
    /\ used = [k \in 1..Prefilled |-> FillKey(k)]
    /\ flight = [t \in D.threads |-> Idle]
    /\ produced = {<<FillKey(k), Result(SegsA, <<>>, 200)>> : k \in 1..Prefilled}

NextThreads(D) ==
    \/ HandlerEnters(D)
    \/ GetTranscriptReturns(D)
    \/ WindowExpires(D)

SpecThreads == InitThreads(DThreads) /\ [][NextThreads(DThreads)]_vars

----------------------------------------------------------------------------
(* The claims *)

\* a video id as the request envelope wants it: a string of 11 id characters
WellFormedId(v) ==
    /\ v.t = "str"
    /\ Len(v.s) = 11
    /\ \A i \in 1..Len(v.s) : IdChar(v.s[i])

\* a request that must not pass validation: no body, no videoId, or a videoId
\* of bad format
InvalidInput(data) ==
    \/ data.kind = "none"
    \/ data.kind = "dict" /\ ~WellFormedId(data.videoId)

Handled == last.route # "none" /\ ~last.limited

\* C1: on each of the four routes a request whose validation fails (missing
\* body, missing videoId, videoId of bad format) is answered 400 with an
\* error.message, and neither the transcript provider nor the model is called.
C1_InvalidInputIs400 ==
    (Handled /\ InvalidInput(last.data)) =>
        /\ last.resp.status = 400
        /\ last.resp.error.present
        /\ Len(last.resp.error.message) > 0
        /\ ~last.fetched
        /\ last.attempts = <<>>
        /\ last.modelCalls = 0

\* the status the provider's behaviour is classified as
Classified(attempts) ==
    LET o == attempts[Len(attempts)].out
    IN  CASE o.kind = "NoTranscriptFound" -> 404
          [] o.kind = "TranscriptsDisabled" -> 403
          [] OTHER -> 500

\* C2: whenever transcript retrieval fails the handler answers with the
\* Retriever's status (404, 403 or 500 as classified) and the Retriever's
\* message verbatim, and the model is not called.
C2_FetchFailurePassedThrough ==
    (Handled /\ last.fetched /\ last.result.none) =>
        /\ last.resp.status = last.result.status
        /\ last.resp.status \in {404, 403, 500}
        /\ ~last.hit => last.result.status = Classified(last.attempts)
        /\ last.resp.error.present
        /\ last.resp.error.message = last.result.message
        /\ last.modelCalls = 0

\* C3: the cache never stores an error result: a fetch that follows a failed
\* fetch for the same key calls the provider again and does not return the
\* earlier error from the cache.
C3_NoErrorInCache ==
    /\ \A i \in 1..Len(cache) : ~cache[i].val.none
    /\ (Handled /\ last.fetched /\ last.hit) => ~last.result.none

\* a step in which a request is counted
RequestStep ==
    \E cl \in DOMAIN hits, route \in Endpoints : hits'[cl][route] = hits[cl][route] + 1

\* C4: once a fetch for (videoId, targetLang) has succeeded, every later fetch
\* for that pair made while it is in the cache returns the same segments with
\* status 200 and calls the provider not at all.
C4_CachedSuccessReused ==
    [][\A i \in 1..Len(cache) :
         (/\ RequestStep
          /\ last'.fetched
          /\ last'.key = cache[i].key
          /\ ~cache[i].val.none)
         => /\ last'.result = cache[i].val
            /\ last'.result.status = 200
            /\ last'.attempts = <<>>]_vars

C4_Witness ==
    /\ Handled /\ last.fetched /\ last.hit
    /\ ~last.result.none
    /\ last.result.segs = SegsB
    /\ last.resp.status = 200

\* C5: fetch attempts English first; when there is no English transcript it
\* attempts the preferred language, and a transcript found there is returned
\* with no error (empty message, status 200).
C5_EnglishThenPreferred ==
    (Handled /\ last.fetched /\ ~last.hit) =>
        /\ Len(last.attempts) >= 1
        /\ last.attempts[1].lang = LangEn
        /\ last.attempts[1].out = NoTranscriptFound =>
              /\ Len(last.attempts) = 2
              /\ last.attempts[2].lang = last.key[2]
              /\ last.attempts[2].out.kind = "found" =>
                    last.result = [none |-> FALSE, segs |-> last.attempts[2].out.segs,
                                   message |-> <<>>, status |-> 200]

C5_Witness ==
    /\ Handled /\ last.fetched /\ ~last.hit
    /\ last.key[2] = LangFr
    /\ Len(last.attempts) = 2
    /\ last.attempts[1].out = NoTranscriptFound
    /\ last.attempts[2].out = Found(SegsB)
    /\ last.result.segs = SegsB
    /\ last.result.status = 200

\* C6: when the provider reports transcripts disabled, at the English attempt
\* or at the preferred-language attempt, fetch returns no transcript with 403,
\* whatever the language, and makes no provider attempt after that report.
C6_DisabledIs403 ==
    (Handled /\ last.fetched /\ ~last.hit) =>
        \A i \in 1..Len(last.attempts) :
            last.attempts[i].out = TranscriptsDisabled =>
                /\ i = Len(last.attempts)
                /\ last.result.none
                /\ last.result.status = 403
                /\ last.result.message = MsgDisabled

C6_Witness ==
    /\ Handled /\ last.fetched /\ ~last.hit
    /\ Len(last.attempts) = 2
    /\ last.attempts[2].out = TranscriptsDisabled
    /\ last.result.status = 403

\* C7: a request that reaches the model call sends exactly one request to the
\* model; when that call fails the answer is 500 with an error carrying the
\* provider's message, and the call is not made again.
C7_OneModelCall ==
    Handled =>
        /\ last.modelCalls <= 1
        /\ (last.fetched /\ ~last.result.none) => last.modelCalls = 1
        /\ last.model.kind = "Exception" =>
              /\ last.modelCalls = 1
              /\ last.resp.status = 500
              /\ last.resp.error.present
              /\ last.resp.error.message = MsgProcessing \o last.model.msg

C7_Witness ==
    /\ Handled
    /\ last.route = "top-comments"
    /\ last.model = ModelError(<<"API Error">>)
    /\ last.modelCalls = 1
    /\ last.resp.status = 500

----------------------------------------------------------------------------
\* C11: truncate_text returns a text of at most 12,000 characters unchanged;
\* of a longer text it returns exactly the first 12,000 characters followed by
\* the truncation marker.
C11_TruncateAt12000 ==
    ret.fn = "truncate_text" =>
        /\ ret.exc = ""
        /\ Len(arg.s) <= 12000 => ret.val = arg.s
        /\ Len(arg.s) > 12000 =>
              /\ Len(ret.val) = 12000 + Len(TruncationMarker)
              /\ \A i \in 1..12000 : ret.val[i] = arg.s[i]
              /\ \A j \in 1..Len(TruncationMarker) : ret.val[12000 + j] = TruncationMarker[j]

C11_Witness ==
    /\ ret.fn = "truncate_text"
    /\ Len(arg.s) = 12002
    /\ arg.s[12001] = 233
    /\ Len(ret.val) = 12041
    /\ ret.val[12000] = 97
    /\ ret.val[12001] = 10

\* the keys of a cache, and the place of a key in the order of use
CacheKeys(c) == {c[i].key : i \in 1..Len(c)}
UsedAt(u, key) == CHOOSE i \in 1..Len(u) : u[i] = key

\* C12: the cache never holds more than 100 entries, nor two entries for one
\* (videoId, language) key; a request drops a key from the cache only to
\* insert a new key into a cache of 100 entries, and the one key it drops is
\* the key of the cache that was used (inserted or hit) the longest ago.
C12_LruBound ==
    /\ Len(cache) <= 100
    /\ Cardinality(CacheKeys(cache)) = Len(cache)

C12_LruEviction ==
    /\ [](C12_LruBound)
    /\ [][LET dropped == CacheKeys(cache) \ CacheKeys(cache')
              added == CacheKeys(cache') \ CacheKeys(cache)
          IN  /\ Cardinality(dropped) <= 1
              /\ dropped # {} =>
                    /\ Len(cache) = 100
                    /\ Cardinality(added) = 1
                    /\ \A d \in dropped : \A k \in CacheKeys(cache) :
                          UsedAt(used, d) <= UsedAt(used, k)
              /\ (added # {} /\ Len(cache) = 100) => dropped # {}]_vars

\* the cache is full, the first video was asked for again before the cache
\* overflowed, and the overflow dropped the second video and kept the first
C12_Witness ==
    /\ Len(cache) = 100
    /\ FillKey(1) \in CacheKeys(cache)
    /\ FillKey(2) \notin CacheKeys(cache)
    /\ <<NewId(2), LangFr>> \in CacheKeys(cache)
    /\ last.fetched /\ ~last.hit

\* a result as get_transcript returns it: a transcript with status 200, or no
\* transcript with the status of the failure
Complete(val) ==
    /\ DOMAIN val = {"none", "segs", "message", "status"}
    /\ val.none \in BOOLEAN
    /\ IF val.none THEN val.segs = <<>> /\ val.status \in {403, 404, 500}
                   ELSE val.segs \in {SegsA, SegsB} /\ val.status = 200

\* C13: however the requests handled at once interleave, the cache holds at
\* most 100 entries and at most one entry for a key; every entry, and every
\* value a request reads from the cache, is a complete result that a run of
\* the body of get_transcript returned for that very key.
C13_ConcurrentCacheConsistent ==
    /\ Len(cache) <= 100
    /\ Cardinality(CacheKeys(cache)) = Len(cache)
    /\ \A i \in 1..Len(cache) :
          /\ <<cache[i].key, cache[i].val>> \in produced
          /\ Complete(cache[i].val)
    /\ (last.fetched /\ last.hit) =>
          /\ <<last.key, last.result>> \in produced
          /\ Complete(last.result)

\* two threads missed the same new video, the provider gave them different
\* transcripts, both stored: the full cache holds the first one only, and a
\* later request has read it
C13_Witness ==
    LET key == <<NewId(1), LangFr>>
    IN  /\ Len(cache) = 100
        /\ <<key, Result(SegsA, <<>>, 200)>> \in produced
        /\ <<key, Result(SegsB, <<>>, 200)>> \in produced
        /\ last.fetched /\ last.hit /\ last.key = key
        /\ \A t \in DOMAIN flight : flight[t].pc = "idle"

\* C9: validate_video_id(id) is true if and only if id is exactly 11 characters,
\* each of [A-Za-z0-9_-]; it is false for every other string.
C9_ExactlyElevenIdChars ==
    (ret.fn = "validate_video_id" /\ arg.t = "str") =>
        /\ ret.exc = ""
        /\ ret.val = (Len(arg.s) = 11 /\ \A i \in 1..Len(arg.s) : IdChar(arg.s[i]))

\* C10: validate_language never fails and returns fr or en: the lowercased
\* input when that is fr or en, fr otherwise, for every value a request can carry.
C10_LanguageNeverFails ==
    ret.fn = "validate_language" =>
        /\ ret.exc = ""
        /\ ret.val \in {LangFr, LangEn}
        /\ ret.val = (IF arg.t = "str" /\ Lower(arg.s) \in {LangFr, LangEn}
                      THEN Lower(arg.s) ELSE LangFr)

====
